---- MODULE Spec2Model ----
(***************************************************************************)
(* Model of src/main.py: a Qt window (MainWindow) that resolves an audio   *)
(* stream or downloads audio through a YTDLPWorker.  The UI thread runs    *)
(* the event handlers one at a time; every Stream / Download click submits *)
(* one task to a fresh single-thread executor and arms a single-shot poll  *)
(* timer.  A modal message box runs a nested event loop: timers and queued *)
(* signal deliveries keep running, clicks on the main window do not.       *)
(*                                                                         *)
(* Spec / FairSpec: the window, the operations, their tasks, timers and    *)
(*   queued `finished` signals, with a yt-dlp that reports no progress.    *)
(* SpecHook: the progress path (hook, `progress` signal, progress bar) of  *)
(*   a running download, for every dict yt-dlp can hand to the hook.       *)
(* SpecFormats: best_audio_stream_url on every list of formats.            *)
(*                                                                         *)
(* Python values: an optional value (None or v) is the sequence <<>> or    *)
(* <<v>>; a text or a path is a sequence of characters / path components.  *)
(***************************************************************************)
EXTENDS Integers, Sequences, FiniteSets, TLC

\* ---------------------------------------------------------------- bounds
MaxOps == 2          \* Stream / Download operations started in one run
MaxHooks == 1        \* progress-hook calls per download
MaxDialogs == 2      \* depth of nested modal message boxes
MaxBytes == 2        \* byte counts reported to the progress hook
MaxFormats == 2      \* formats in one extracted info dict
MaxAbr == 1          \* audio bit rates of a format

\* ------------------------------------------------------ program constants
ProgressMin == 0     \* self.progress.setRange(0, 100)
ProgressMax == 100
Percent == 100       \* float(p) * 100.0 / float(t), and progress.emit(100.0)

VARIABLES
    YoutubeDL,            \* TRUE iff `from yt_dlp import YoutubeDL` succeeded
    url_input,            \* text of the QLineEdit
    enabled,              \* MainWindow.isEnabled()
    status_label,         \* text of the QLabel
    progress,             \* value of the QProgressBar
    download_dir,         \* MainWindow.download_dir
    worker_download_dir,  \* MainWindow.worker.download_dir
    player,               \* QMediaPlayer: [source, state]
    dialogs,              \* stack of open modal message boxes, innermost last
    future,               \* per operation: the submitted task and its Future
    timer,                \* per operation: a QTimer.singleShot(.., poll) is armed
    events,               \* FIFO of queued signal deliveries to the UI thread
    nops,                 \* operations started so far
    log,                  \* history per operation: signals emitted, boxes shown
    formats,              \* info["formats"] given to best_audio_stream_url
    s_url,                \* its result, once computed
    hook_d                \* the dict yt-dlp gives to the progress hook

vars == <<YoutubeDL, url_input, enabled, status_label, progress, download_dir,
          worker_download_dir, player, dialogs, future, timer, events, nops,
          log, formats, s_url, hook_d>>

\* the inputs and results the pure-function specifications draw
pure == <<formats, s_url, hook_d>>

ui == <<url_input, enabled, status_label, progress, download_dir,
        worker_download_dir, player, dialogs>>

Ops == 1..MaxOps

\* ------------------------------------------------------------ Python bits
None == <<>>
Some(v) == <<v>>

\* `x or 0` for an optional number
Or0(x) == IF x = None \/ x = Some(0) THEN 0 ELSE x[1]

\* `not data` for an optional string
Falsy(x) == x = None \/ x = Some("")

\* str.strip(): drop leading and trailing blanks
RECURSIVE LStrip(_)
LStrip(s) == IF s # <<>> /\ Head(s) = " " THEN LStrip(Tail(s)) ELSE s

RECURSIVE RStrip(_)
RStrip(s) ==
    IF s # <<>> /\ s[Len(s)] = " " THEN RStrip(SubSeq(s, 1, Len(s) - 1)) ELSE s

strip(s) == RStrip(LStrip(s))

\* pathlib.Path(text), on the component sequence of the text: empty
\* components ("a//b", a trailing "/") disappear, the empty text is "."
RECURSIVE PathParts(_)
PathParts(s) ==
    IF s = <<>> THEN <<>>
    ELSE IF Head(s) = "" THEN PathParts(Tail(s))
    ELSE <<Head(s)>> \o PathParts(Tail(s))

Path(s) == IF PathParts(s) = <<>> THEN <<".">> ELSE PathParts(s)

\* Path.cwd() / "downloads"
CwdDownloads == <<"cwd", "downloads">>

UrlTexts == {<<>>, <<" ">>, <<" ", "u", " ">>}
DialogPaths == {<<>>, <<"music", "">>}

\* ------------------------------------------- YTDLPWorker.best_audio_stream_url
\* A format dict: f.get(k) is None (<<>>) or the value (<<v>>).
Codecs == {Some("none"), Some("opus")}
VCodecs == {Some("none"), Some("avc1")}
Abrs == {None} \cup {Some(n) : n \in 1..MaxAbr}
Tbrs == {None, Some(1)}
Urls == {None, Some("u1"), Some("u2")}

Format == [acodec : Codecs, vcodec : VCodecs, abr : Abrs, tbr : Tbrs, url : Urls]

\* f.get("acodec") != "none"
HasAudio(f) == f.acodec # Some("none")

\* f.get("acodec") != "none" and f.get("vcodec") == "none"
AudioOnly(f) == HasAudio(f) /\ f.vcodec = Some("none")

\* [f for f in fs if P(f)]
RECURSIVE AudioOnlyFormats(_)
AudioOnlyFormats(fs) ==
    IF fs = <<>> THEN <<>>
    ELSE (IF AudioOnly(Head(fs)) THEN <<Head(fs)>> ELSE <<>>)
         \o AudioOnlyFormats(Tail(fs))

RECURSIVE AudioFormats(_)
AudioFormats(fs) ==
    IF fs = <<>> THEN <<>>
    ELSE (IF HasAudio(Head(fs)) THEN <<Head(fs)>> ELSE <<>>)
         \o AudioFormats(Tail(fs))

\* key=lambda f: (f.get("abr") or 0, f.get("tbr") or 0)
Key(f) == <<Or0(f.abr), Or0(f.tbr)>>

\* tuple comparison k1 < k2
KeyLess(k1, k2) == k1[1] < k2[1] \/ (k1[1] = k2[1] /\ k1[2] < k2[2])

\* max(seq, key=Key): the first element whose key no later one exceeds
RECURSIVE MaxFrom(_, _)
MaxFrom(best, rest) ==
    IF rest = <<>> THEN best
    ELSE IF KeyLess(Key(best), Key(Head(rest))) THEN MaxFrom(Head(rest), Tail(rest))
    ELSE MaxFrom(best, Tail(rest))

MaxByKey(fs) == MaxFrom(Head(fs), Tail(fs))

\* Candidates without the audio-only preference
CandidatesAnyAudio(fs) == AudioFormats(fs)

\* The formats the function selects among: audio-only, else any with audio
Candidates(fs) ==
    IF AudioOnlyFormats(fs) # <<>> THEN AudioOnlyFormats(fs) ELSE AudioFormats(fs)

best_audio_stream_url(fs) ==
    IF Candidates(fs) = <<>> THEN None
    ELSE MaxByKey(Candidates(fs)).url

\* ------------------------------------------------ YTDLPWorker.download.hook
\* d: [status, downloaded_bytes, total_bytes, total_bytes_estimate]; the
\* result is the value emitted on `progress`, an exact fraction <<num, den>>,
\* or None when nothing is emitted.
Bytes == {None} \cup {Some(n) : n \in 0..MaxBytes}
HookStatus == {"downloading", "finished", "error"}
HookInput == [status : HookStatus, downloaded_bytes : Bytes,
              total_bytes : Bytes, total_bytes_estimate : Bytes]

\* d.get('total_bytes') or d.get('total_bytes_estimate') or 0
HookTotal(d) ==
    IF Or0(d.total_bytes) # 0 THEN Or0(d.total_bytes)
    ELSE Or0(d.total_bytes_estimate)

hook(d) ==
    IF d.status = "downloading"
    THEN IF HookTotal(d) # 0
         THEN Some(<<Or0(d.downloaded_bytes) * Percent, HookTotal(d)>>)
         ELSE None
    ELSE IF d.status = "finished" THEN Some(<<Percent, 1>>)
    ELSE None

\* int(p) of a non-negative fraction
IntOf(q) == q[1] \div q[2]

\* QProgressBar.setValue(v): a value outside the range is ignored
setValue(old, v) == IF v >= ProgressMin /\ v <= ProgressMax THEN v ELSE old

\* -------------------------------------------------------------- the state
NoFuture == [kind |-> "none", pc |-> "none", ok |-> FALSE, data |-> None, hooks |-> 0]
NoLog == [emits |-> 0, progressed |-> 0, boxes |-> 0, failed |-> FALSE]

Ready == <<"Ready">>
Downloading == <<"Downloading...">>

InitUI ==
    /\ YoutubeDL \in BOOLEAN
    /\ url_input = <<>>
    /\ enabled = TRUE
    /\ status_label = Ready
    /\ progress = ProgressMin
    /\ download_dir = CwdDownloads
    /\ worker_download_dir = download_dir
    /\ player = [source |-> None, state |-> "Stopped"]
    /\ dialogs = <<>>
    /\ future = [o \in Ops |-> NoFuture]
    /\ timer = [o \in Ops |-> FALSE]
    /\ events = <<>>
    /\ nops = 0
    /\ log = [o \in Ops |-> NoLog]

NoHookInput == [status |-> "error", downloaded_bytes |-> None,
                total_bytes |-> None, total_bytes_estimate |-> None]

Init ==
    /\ InitUI
    /\ formats = <<>>
    /\ s_url = None
    /\ hook_d = NoHookInput

\* The main window takes clicks and keys: it is enabled and no modal box is open
Interactive == enabled /\ dialogs = <<>>

\* QMessageBox.<box>(self, title, ...): opens a modal box; `then` is what the
\* calling handler still does once the box is closed
Box(box, title, then) == [box |-> box, title |-> title, then |-> then]

\* ---------------------------------------------------------- user: the URL
EditUrl(t) ==
    /\ Interactive
    /\ url_input' = t
    /\ UNCHANGED <<YoutubeDL, enabled, status_label, progress, download_dir,
                   worker_download_dir, player, dialogs, future, timer, events,
                   nops, log, pure>>

\* ------------------------------------------------ MainWindow.on_pick_dir
\* on_pick_dir without `self.worker.download_dir = self.download_dir`
on_pick_dir_stale_worker(path) ==
    /\ Interactive
    /\ IF path # <<>>
       THEN /\ download_dir' = Path(path)
            /\ status_label' = <<"Download dir: ">> \o download_dir'
            /\ UNCHANGED worker_download_dir
       ELSE UNCHANGED <<download_dir, worker_download_dir, status_label>>
    /\ UNCHANGED <<YoutubeDL, url_input, enabled, progress, player, dialogs,
                   future, timer, events, nops, log, pure>>

on_pick_dir(path) ==
    /\ Interactive
    /\ IF path # <<>>
       THEN /\ download_dir' = Path(path)
            /\ worker_download_dir' = download_dir'
            /\ status_label' = <<"Download dir: ">> \o download_dir'
       ELSE UNCHANGED <<download_dir, worker_download_dir, status_label>>
    /\ UNCHANGED <<YoutubeDL, url_input, enabled, progress, player, dialogs,
                   future, timer, events, nops, log, pure>>

\* --------------------------------------------------- MainWindow.on_stream
\* Formats an extraction can report to a stream task
StreamFormats ==
    { <<>>,
      <<[acodec |-> Some("opus"), vcodec |-> Some("none"), abr |-> Some(1),
         tbr |-> None, url |-> Some("u1")]>>,
      <<[acodec |-> Some("opus"), vcodec |-> Some("none"), abr |-> Some(1),
         tbr |-> None, url |-> None],
        [acodec |-> Some("opus"), vcodec |-> Some("avc1"), abr |-> None,
         tbr |-> Some(1), url |-> Some("u1")]>> }

\* str(e) of an exception raised by extraction or download
Messages == {"network error"}

on_stream ==
    /\ Interactive
    /\ IF strip(url_input) = <<>>
       THEN UNCHANGED vars
       ELSE /\ nops < MaxOps
            /\ nops' = nops + 1
            /\ enabled' = FALSE
            /\ status_label' = <<"Resolving audio stream...">>
            /\ future' = [future EXCEPT ![nops'] =
                             [NoFuture EXCEPT !.kind = "stream", !.pc = "run"]]
            /\ timer' = [timer EXCEPT ![nops'] = TRUE]
            /\ UNCHANGED <<YoutubeDL, url_input, progress, download_dir,
                           worker_download_dir, player, dialogs, events, log,
                           pure>>

\* on_stream.task, on the worker thread: (True, s_url) or (False, str(e))
StreamResult(ok, data) == [ok |-> ok, data |-> data]

StreamOutcomes ==
    IF YoutubeDL
    THEN {StreamResult(TRUE, best_audio_stream_url(fs)) : fs \in StreamFormats}
         \cup {StreamResult(FALSE, Some(m)) : m \in Messages}
    ELSE {StreamResult(FALSE, Some("'NoneType' object is not callable"))}

stream_task(o) ==
    /\ future[o].kind = "stream"
    /\ future[o].pc = "run"
    /\ \E r \in StreamOutcomes :
          /\ future' = [future EXCEPT ![o].pc = "done", ![o].ok = r.ok,
                                      ![o].data = r.data]
          /\ log' = [log EXCEPT ![o].failed = ~r.ok \/ Falsy(r.data)]
    /\ UNCHANGED <<YoutubeDL, ui, timer, events, nops, pure>>

\* on_stream.done
done(o) ==
    /\ enabled' = TRUE
    /\ IF ~future[o].ok \/ Falsy(future[o].data)
       THEN /\ dialogs' = Append(dialogs, Box("warning", "Stream error", "set_status_Ready"))
            /\ log' = [log EXCEPT ![o].boxes = @ + 1]
            /\ UNCHANGED <<player, status_label>>
       ELSE /\ player' = [source |-> future[o].data, state |-> "Playing"]
            /\ status_label' = <<"Streaming from YouTube">>
            /\ UNCHANGED <<dialogs, log>>

\* on_stream.poll, run by the single-shot timer
poll_stream(o) ==
    /\ timer[o]
    /\ future[o].kind = "stream"
    /\ IF future[o].pc = "done"
       THEN /\ done(o)
            /\ timer' = [timer EXCEPT ![o] = FALSE]
            /\ UNCHANGED <<YoutubeDL, url_input, progress, download_dir,
                           worker_download_dir, future, events, nops, pure>>
       ELSE UNCHANGED vars

\* ------------------------------------------------- MainWindow.on_download
on_download ==
    /\ Interactive
    /\ IF strip(url_input) = <<>>
       THEN UNCHANGED vars
       ELSE IF ~YoutubeDL
       THEN /\ dialogs' = Append(dialogs, Box("critical", "Missing dependency", "return"))
            /\ UNCHANGED <<YoutubeDL, url_input, enabled, status_label, progress,
                           download_dir, worker_download_dir, player, future,
                           timer, events, nops, log, pure>>
       ELSE /\ nops < MaxOps
            /\ nops' = nops + 1
            /\ progress' = 0
            /\ status_label' = Downloading
            /\ enabled' = FALSE
            /\ future' = [future EXCEPT ![nops'] =
                             [NoFuture EXCEPT !.kind = "download", !.pc = "submitted"]]
            /\ timer' = [timer EXCEPT ![nops'] = TRUE]
            /\ UNCHANGED <<YoutubeDL, url_input, download_dir, worker_download_dir,
                           player, dialogs, events, log, pure>>

\* on_download.poll without `self.setEnabled(True)`: enabling left to
\* on_download_finished
poll_download_no_enable(o) ==
    /\ timer[o]
    /\ future[o].kind = "download"
    /\ IF future[o].pc = "done"
       THEN /\ timer' = [timer EXCEPT ![o] = FALSE]
            /\ UNCHANGED <<YoutubeDL, url_input, enabled, status_label, progress,
                           download_dir, worker_download_dir, player, dialogs,
                           future, events, nops, log, pure>>
       ELSE UNCHANGED vars

\* on_download.poll, run by the single-shot timer
poll_download(o) ==
    /\ timer[o]
    /\ future[o].kind = "download"
    /\ IF future[o].pc = "done"
       THEN /\ enabled' = TRUE
            /\ timer' = [timer EXCEPT ![o] = FALSE]
            /\ UNCHANGED <<YoutubeDL, url_input, status_label, progress,
                           download_dir, worker_download_dir, player, dialogs,
                           future, events, nops, log, pure>>
       ELSE UNCHANGED vars

\* --------------------------------------------------- YTDLPWorker.download
\* A queued signal delivery
Event(sig, success, value, o) ==
    [sig |-> sig, success |-> success, value |-> value, op |-> o]

\* self.download_dir.mkdir(parents=True, exist_ok=True), before the try:
\* an OSError leaves download() and task(), and ends up in the Future
download_mkdir(o) ==
    /\ future[o].kind = "download"
    /\ future[o].pc = "submitted"
    /\ \E created \in BOOLEAN :
          IF created
          THEN /\ future' = [future EXCEPT ![o].pc = "ydl"]
               /\ UNCHANGED log
          ELSE /\ future' = [future EXCEPT ![o].pc = "done", ![o].data = Some("OSError")]
               /\ log' = [log EXCEPT ![o].failed = TRUE]
    /\ UNCHANGED <<YoutubeDL, ui, timer, events, nops, pure>>

\* yt-dlp calls the progress hook
download_hook(o, d) ==
    /\ future[o].kind = "download"
    /\ future[o].pc = "ydl"
    /\ future[o].hooks < MaxHooks
    /\ future' = [future EXCEPT ![o].hooks = @ + 1]
    /\ IF hook(d) = None
       THEN UNCHANGED <<events, log>>
       ELSE /\ events' = Append(events, Event("progress", FALSE, hook(d)[1], o))
            /\ log' = [log EXCEPT ![o].progressed = @ + 1]
    /\ UNCHANGED <<YoutubeDL, ui, timer, nops, pure>>

\* ydl.download([url]) ends: result 0, another result, or an exception
DownloadResults == {<<"zero", "">>, <<"nonzero", "">>} \cup ({"raise"} \X Messages)

\* the arguments of self.finished.emit(...)
finished_args(r) ==
    IF r[1] = "zero" THEN <<TRUE, worker_download_dir>>
    ELSE IF r[1] = "nonzero" THEN <<FALSE, <<"Download failed">>>>
    ELSE <<FALSE, <<r[2]>>>>

download_result(o, r) ==
    /\ future[o].kind = "download"
    /\ future[o].pc = "ydl"
    /\ events' = Append(events, Event("finished", finished_args(r)[1], finished_args(r)[2], o))
    /\ future' = [future EXCEPT ![o].pc = "emitted"]
    /\ log' = [log EXCEPT ![o].emits = @ + 1, ![o].failed = (r[1] # "zero")]
    /\ UNCHANGED <<YoutubeDL, ui, timer, nops, pure>>

\* download() and task() return: the Future is done
task_return(o) ==
    /\ future[o].kind = "download"
    /\ future[o].pc = "emitted"
    /\ future' = [future EXCEPT ![o].pc = "done"]
    /\ UNCHANGED <<YoutubeDL, ui, timer, events, nops, log, pure>>

\* ------------------------------------------ queued slots on the UI thread
\* worker.progress -> lambda p: self.progress.setValue(int(p))
progress_slot ==
    /\ events # <<>>
    /\ Head(events).sig = "progress"
    /\ progress' = setValue(progress, IntOf(Head(events).value))
    /\ events' = Tail(events)
    /\ UNCHANGED <<YoutubeDL, url_input, enabled, status_label, download_dir,
                   worker_download_dir, player, dialogs, future, timer, nops,
                   log, pure>>

\* worker.finished -> MainWindow.on_download_finished
on_download_finished ==
    /\ events # <<>>
    /\ Head(events).sig = "finished"
    /\ enabled' = TRUE
    /\ IF Head(events).success
       THEN /\ status_label' = <<"Saved to: ">> \o download_dir
            /\ dialogs' = Append(dialogs, Box("information", "Done", "return"))
            /\ UNCHANGED log
       ELSE /\ status_label' = Ready
            /\ dialogs' = Append(dialogs, Box("warning", "Download error", "return"))
            /\ log' = [log EXCEPT ![Head(events).op].boxes = @ + 1]
    /\ events' = Tail(events)
    /\ UNCHANGED <<YoutubeDL, url_input, progress, download_dir,
                   worker_download_dir, player, future, timer, nops, pure>>

\* The user closes the innermost message box; its caller resumes
close_box ==
    /\ dialogs # <<>>
    /\ dialogs' = SubSeq(dialogs, 1, Len(dialogs) - 1)
    /\ status_label' = IF dialogs[Len(dialogs)].then = "set_status_Ready"
                       THEN Ready ELSE status_label
    /\ UNCHANGED <<YoutubeDL, url_input, enabled, progress, download_dir,
                   worker_download_dir, player, future, timer, events, nops,
                   log, pure>>

\* ------------------------------------------------------------ the player
\* MainWindow.on_state, connected to player.playbackStateChanged
on_state(state) == status_label' = <<state>>

\* play_btn.clicked -> player.play
click_play ==
    /\ Interactive
    /\ IF player.source # None /\ player.state # "Playing"
       THEN /\ player' = [player EXCEPT !.state = "Playing"]
            /\ on_state("Playing")
       ELSE UNCHANGED <<player, status_label>>
    /\ UNCHANGED <<YoutubeDL, url_input, enabled, progress, download_dir,
                   worker_download_dir, dialogs, future, timer, events, nops,
                   log, pure>>

\* pause_btn.clicked -> player.pause
click_pause ==
    /\ Interactive
    /\ IF player.source # None /\ player.state # "Paused"
       THEN /\ player' = [player EXCEPT !.state = "Paused"]
            /\ on_state("Paused")
       ELSE UNCHANGED <<player, status_label>>
    /\ UNCHANGED <<YoutubeDL, url_input, enabled, progress, download_dir,
                   worker_download_dir, dialogs, future, timer, events, nops,
                   log, pure>>

\* stop_btn.clicked -> player.stop
click_stop ==
    /\ Interactive
    /\ IF player.state # "Stopped"
       THEN /\ player' = [player EXCEPT !.state = "Stopped"]
            /\ on_state("Stopped")
       ELSE UNCHANGED <<player, status_label>>
    /\ UNCHANGED <<YoutubeDL, url_input, enabled, progress, download_dir,
                   worker_download_dir, dialogs, future, timer, events, nops,
                   log, pure>>

\* The stream ends while playing: the player stops by itself
end_of_media ==
    /\ player.state = "Playing"
    /\ player' = [player EXCEPT !.state = "Stopped"]
    /\ on_state("Stopped")
    /\ UNCHANGED <<YoutubeDL, url_input, enabled, progress, download_dir,
                   worker_download_dir, dialogs, future, timer, events, nops,
                   log, pure>>

\* MainWindow.on_error, connected to player.errorOccurred
PlayerErrors == {"NoError", "ResourceError"}

on_error(error) ==
    /\ player.source # None
    /\ Len(dialogs) < MaxDialogs
    /\ IF error # "NoError"
       THEN dialogs' = Append(dialogs, Box("warning", "Playback error", "return"))
       ELSE UNCHANGED dialogs
    /\ UNCHANGED <<YoutubeDL, url_input, enabled, status_label, progress,
                   download_dir, worker_download_dir, player, future, timer,
                   events, nops, log, pure>>

\* ------------------------------------------------------ the specification
Next ==
    \/ \E t \in UrlTexts : EditUrl(t)
    \/ \E path \in DialogPaths : on_pick_dir(path)
    \/ on_stream
    \/ \E o \in Ops : stream_task(o)
    \/ \E o \in Ops : poll_stream(o)
    \/ on_download
    \/ \E o \in Ops : download_mkdir(o)
    \/ \E o \in Ops : \E r \in DownloadResults : download_result(o, r)
    \/ \E o \in Ops : task_return(o)
    \/ \E o \in Ops : poll_download(o)
    \/ on_download_finished
    \/ close_box
    \/ click_play
    \/ click_pause
    \/ click_stop
    \/ end_of_media
    \/ \E error \in PlayerErrors : on_error(error)

Spec == Init /\ [][Next]_vars

\* The worker threads run to their end and armed timers fire
Fairness ==
    \A o \in Ops :
        /\ WF_vars(stream_task(o))
        /\ WF_vars(download_mkdir(o))
        /\ WF_vars(\E r \in DownloadResults : download_result(o, r))
        /\ WF_vars(task_return(o))
        /\ WF_vars(poll_stream(o))
        /\ WF_vars(poll_download(o))

FairSpec == Spec /\ Fairness

\* ----------------------------- best_audio_stream_url on every formats list
FormatLists == UNION {[1..n -> Format] : n \in 0..MaxFormats}

PastedUrl == <<" ", "u", " ">>

InitFormats ==
    /\ InitUI
    /\ YoutubeDL
    /\ formats \in FormatLists
    /\ s_url = None
    /\ hook_d = NoHookInput

\* s_url = self.worker.best_audio_stream_url(url), on the extracted formats
resolve ==
    /\ s_url = None
    /\ s_url' = Some(best_audio_stream_url(formats))
    /\ UNCHANGED <<YoutubeDL, ui, future, timer, events, nops, log, formats, hook_d>>

NextFormats == resolve

SpecFormats == InitFormats /\ [][NextFormats]_vars

\* ------------------------------- the progress path of a running download
InitHook ==
    /\ YoutubeDL = TRUE
    /\ url_input = PastedUrl
    /\ enabled = FALSE
    /\ status_label = Downloading
    /\ progress = ProgressMin
    /\ download_dir = CwdDownloads
    /\ worker_download_dir = download_dir
    /\ player = [source |-> None, state |-> "Stopped"]
    /\ dialogs = <<>>
    /\ future = [o \in Ops |-> IF o = 1
                                THEN [NoFuture EXCEPT !.kind = "download", !.pc = "ydl"]
                                ELSE NoFuture]
    /\ timer = [o \in Ops |-> o = 1]
    /\ events = <<>>
    /\ nops = 1
    /\ log = [o \in Ops |-> NoLog]
    /\ formats = <<>>
    /\ s_url = None
    /\ hook_d \in HookInput

NextHook ==
    \/ download_hook(1, hook_d)
    \/ progress_slot

SpecHook == InitHook /\ [][NextHook]_vars

\* ================================================================ claims

\* A task is at work: submitted and not yet at its last statement
Working(o) == future[o].pc \in {"run", "submitted", "ydl"}

\* Nothing of operation o is left: task ended, poll chain ended
Over(o) == future[o].pc \in {"none", "done"} /\ ~timer[o]

\* The application is idle: the window takes input and nothing is pending
Idle == enabled /\ dialogs = <<>> /\ events = <<>> /\ \A o \in Ops : Over(o)

\* C1: at most one worker task is in flight at any time, and the window is
\* disabled for as long as a task is at work.
C1_OneTaskInFlight ==
    /\ \A o \in Ops : Working(o) => ~enabled
    /\ Cardinality({o \in Ops : Working(o)}) <= 1

\* C2: every stream or download operation that failed has shown a warning or
\* critical box by the time the application is idle again.
C2_FailureShowsBox ==
    Idle => \A o \in Ops : log[o].failed => log[o].boxes >= 1

\* C3: a window disabled by on_stream or on_download is enabled again once
\* the task has ended, whatever its result; the poll that sees the Future done
\* enables the window and arms no further timer, no other step ends the poll
\* chain, and an ended chain is never armed again.
C3_EnabledAgain ==
    /\ (~enabled) ~> enabled
    /\ [][\A o \in Ops :
            /\ ((poll_stream(o) \/ poll_download(o)) /\ future[o].pc = "done")
                  => (enabled' /\ ~timer'[o])
            /\ (timer[o] /\ ~timer'[o]) => future[o].pc = "done"
            /\ (future[o].kind # "none" /\ ~timer[o]) => ~timer'[o]]_vars

C3_Witness ==
    \E o \in Ops :
        /\ future[o].kind = "download"
        /\ future[o].pc = "done"
        /\ log[o].failed
        /\ ~timer[o]
        /\ enabled

\* C4: worker.download_dir equals MainWindow.download_dir, initially
\* <cwd>/downloads; a cancelled folder dialog changes neither of them nor the
\* status label, a chosen folder sets both.
C4_DownloadDirInSync ==
    /\ download_dir = CwdDownloads
    /\ [](worker_download_dir = download_dir)
    /\ [][/\ on_pick_dir(<<>>) =>
                UNCHANGED <<download_dir, worker_download_dir, status_label>>
          /\ \A path \in DialogPaths \ {<<>>} :
                on_pick_dir(path) =>
                    /\ download_dir' = Path(path)
                    /\ worker_download_dir' = Path(path)]_vars

C4_Witness ==
    /\ download_dir = <<"music">>
    /\ worker_download_dir = <<"music">>
    /\ status_label = <<"Download dir: ", "music">>
    /\ \E o \in Ops : future[o].kind = "download" /\ future[o].pc = "ydl"

\* C5: every value emitted on `progress` lies in 0..100, and nothing is
\* emitted for a "downloading" report whose total is zero or unknown.
InRange(q) == q[1] >= ProgressMin * q[2] /\ q[1] <= ProgressMax * q[2]

C5_ProgressInRange ==
    /\ \A i \in DOMAIN events :
          events[i].sig = "progress" => InRange(events[i].value)
    /\ (hook_d.status = "downloading" /\ HookTotal(hook_d) = 0)
          => \A o \in Ops : log[o].progressed = 0

\* C7: every download() that has ended emitted `finished` exactly once, with
\* success exactly when yt-dlp returned 0; once the downloads are over and
\* their events are processed the label no longer reads "Downloading...".
C7_FinishedOnce ==
    /\ \A o \in Ops :
          (future[o].kind = "download" /\ future[o].pc = "done") => log[o].emits = 1
    /\ \A i \in DOMAIN events :
          events[i].sig = "finished" => events[i].success = ~log[events[i].op].failed
    /\ (events = <<>> /\ \A o \in Ops : Over(o)) => status_label # Downloading

\* C6: best_audio_stream_url returns the url of an audio-only format whose
\* (abr, tbr) is maximal among the audio-only formats when there is one, of a
\* format with video only when there is none, and None when no format
\* carries audio.
Idx == DOMAIN formats
AudioOnlyIdx == {i \in Idx : AudioOnly(formats[i])}
AudioIdx == {i \in Idx : HasAudio(formats[i])}

\* i has a maximal (abr, tbr) among the formats at S
Maximal(i, S) == \A j \in S : ~KeyLess(Key(formats[i]), Key(formats[j]))

\* the format max() returns among those at S: the first maximal one
Chosen(i, S) == i \in S /\ Maximal(i, S) /\ \A j \in S : Maximal(j, S) => i <= j

Returned == s_url[1]

C6_Selection ==
    /\ AudioOnlyIdx # {} =>
          \E i \in AudioOnlyIdx : Maximal(i, AudioOnlyIdx) /\ formats[i].url = Returned
    /\ (AudioOnlyIdx = {} /\ AudioIdx # {}) =>
          \E i \in AudioIdx : Maximal(i, AudioIdx) /\ formats[i].url = Returned
    /\ AudioIdx = {} => Returned = None

\* C6 as stated: moreover None is returned exactly when no format carries audio
C6_NoneIffNoAudio ==
    s_url # None => (C6_Selection /\ ((Returned = None) <=> (AudioIdx = {})))

\* C6 as amended: None is returned exactly when no format carries audio or
\* the chosen format, the first maximal one, has no url.
C6_NoneIffNoAudioOrNoUrl ==
    s_url # None =>
        /\ C6_Selection
        /\ (Returned = None) <=>
              (\/ AudioIdx = {}
               \/ \E i \in Idx :
                     /\ Chosen(i, IF AudioOnlyIdx # {} THEN AudioOnlyIdx ELSE AudioIdx)
                     /\ formats[i].url = None)

\* an audio-only format wins over a muxed one with a higher bit rate
C6_Witness ==
    /\ s_url # None
    /\ Returned # None
    /\ \E i \in AudioOnlyIdx, j \in AudioIdx \ AudioOnlyIdx :
          /\ KeyLess(Key(formats[i]), Key(formats[j]))
          /\ formats[i].url = Returned
          /\ formats[j].url # None
          /\ formats[j].url # Returned

====
